---- MODULE Spec2Model ----
(***************************************************************************)
(* Quotation builder (QuotationAppAmjad.py) and quotation history page     *)
(* (pages/history.py) as a state machine.                                  *)
(*                                                                         *)
(* Streamlit reruns the script after every interaction, so quantities the  *)
(* script recomputes from the session on each run (output_data, total_sum, *)
(* final_total) are operators over the session state, and every button or  *)
(* widget callback is one action.                                          *)
(*                                                                         *)
(* Money is an integer number of 10^-6 SAR; the catalog's prices are whole *)
(* SAR and discounts whole percents, so unit_price * (1 - d/100) * qty,    *)
(* total * (1 - d/100) and total * 0.14 are exact in this unit.  Python    *)
(* computes them in binary floating point; the model computes the decimal  *)
(* values the floats approximate.                                          *)
(***************************************************************************)
EXTENDS Integers, Sequences, FiniteSets, TLC

VARIABLES
    catalog,            \* rows of the product sheet (all_values[1:])
    history_sheet,      \* rows of the sheet "Amjad's history"
    sheet_up,           \* get_history_sheet() returns a worksheet
    company_sheet,      \* rows of the sheet "clients Db"
    logged_in, user_email, role,
    form_submitted, company_details,
    row_indices, selected_products,
    qty_w, disc_w, color_w,      \* widget state qty_{idx}, disc_{idx}, color_{idx}
    overall_w,                   \* the overall discount number_input
    terms_reviewed, show_edit_terms, terms_text,
    history, history_loaded, pdf_data,
    page,                        \* which script runs: builder or history page
    pdf_out,                     \* the document the last render produced
    pdf_cache,                   \* st.cache_data of build_pdf_cached
    messages,                    \* st.warning / st.error of the last action
    confirm_delete,              \* the flags confirm_delete_{idx} that are set
    search_input,                \* the text in the history page's search box
    gen_log                      \* inputs and hash of earlier Generate PDF actions

vars == << catalog, history_sheet, sheet_up, company_sheet, logged_in,
           user_email, role, form_submitted, company_details, row_indices,
           selected_products, qty_w, disc_w, color_w, overall_w,
           terms_reviewed, show_edit_terms, terms_text, history,
           history_loaded, pdf_data, page, pdf_out, pdf_cache, messages,
           confirm_delete, search_input, gen_log >>

-----------------------------------------------------------------------------
(* Bounds of the model *)

MaxRows == 2
MaxQty == 2
MaxHistory == 1

(* Fixed-point unit: 1 SAR = SAR units of 10^-6 SAR *)
SAR == 1000 * 1000
Cent == 100 * 100

None == "-- none --"
SelectOpt == "-- Select --"
DefaultColor == "Choose color"

-----------------------------------------------------------------------------
(* Catalog loader *)

Num(n) == [k |-> "num", v |-> n]
Blank == [k |-> "blank", v |-> 0]
Junk == [k |-> "text", v |-> 0]

\* clean_price: '', nan/none/null and unparseable cells give 0.0, any other
\* cell gives float(cell), whatever its sign
clean_price(val) == IF val.k = "num" THEN val.v ELSE 0

clean_sku(val) == IF val \in {"nan", "none", "null"} THEN "" ELSE val

process_image_url(url) == IF url \in {"nan", "none", "null"} THEN "" ELSE url

valid_title(t) == t # "" /\ t \notin {"nan", "none", "null"}

RECURSIVE FilterRows(_)
FilterRows(rows) ==
    IF rows = << >> THEN << >>
    ELSE LET r == Head(rows)
             rest == FilterRows(Tail(rows))
         IN IF valid_title(r.Title)
            THEN << [Title |-> r.Title,
                     SKU |-> clean_sku(r.SKU),
                     Image |-> process_image_url(r.Image),
                     Price |-> clean_price(r.Price)] >> \o rest
            ELSE rest

\* get_sheet_data: the cleaned data frame
get_sheet_data(sheet) == FilterRows(sheet)

display_name(row) ==
    IF row.SKU # "" THEN row.Title \o " (" \o row.SKU \o ")" ELSE row.Title

\* the value a dict filled in row order holds for key n: the last row's
LastRow(df, n) ==
    LET hits == {i \in 1..Len(df) : display_name(df[i]) = n}
    IN df[CHOOSE i \in hits : \A j \in hits : j <= i]

compute_product_lookups(sheet) ==
    LET df == get_sheet_data(sheet)
        names == {display_name(df[i]) : i \in 1..Len(df)}
    IN [products |-> [i \in 1..Len(df) |-> display_name(df[i])],
        price_map |-> [n \in names |-> LastRow(df, n).Price],
        image_map |-> [n \in names |-> LastRow(df, n).Image],
        code_map |-> [n \in names |-> LastRow(df, n).SKU]]

\* The product sheets of the model
ChairRow == [Title |-> "Chair", SKU |-> "CH-1",
             Image |-> "https://img.example/chair.png",
             Price |-> Num(100 * SAR)]

\* the product sheet as it should be: a row without SKU and image, and a
\* row the loader drops
CatalogA ==
    << ChairRow,
       [Title |-> "Desk", SKU |-> "", Image |-> "nan", Price |-> Num(3 * SAR)],
       [Title |-> "nan", SKU |-> "X", Image |-> "", Price |-> Num(7 * SAR)] >>

\* a product sheet with a price cell "-3" and a price cell that is no number
CatalogB ==
    << ChairRow,
       [Title |-> "Desk", SKU |-> "", Image |-> "", Price |-> Num(-3 * SAR)],
       [Title |-> "Lamp", SKU |-> "", Image |-> "", Price |-> Junk] >>

\* a product sheet with two rows of one title and no SKU: two desks that
\* differ in price and picture
CatalogC ==
    << ChairRow,
       [Title |-> "Desk", SKU |-> "", Image |-> "https://img.example/desk.png",
        Price |-> Num(3 * SAR)],
       [Title |-> "Desk", SKU |-> "", Image |-> "", Price |-> Num(5 * SAR)] >>

Catalogs == {CatalogA, CatalogB, CatalogC}

\* compute_product_lookups is cached (st.cache_data): one result per sheet
LookupCache == [c \in Catalogs |-> compute_product_lookups(c)]

lookups == LookupCache[catalog]

\* dict.get(key, default)
Get(map, key, default) == IF key \in DOMAIN map THEN map[key] ELSE default

name_options == {lookups.products[i] : i \in 1..Len(lookups.products)}

-----------------------------------------------------------------------------
(* Helpers for dicts and lists *)

Put(f, k, v) == [x \in (DOMAIN f) \cup {k} |-> IF x = k THEN v ELSE f[x]]

Drop(f, k) == [x \in (DOMAIN f) \ {k} |-> f[x]]

Empty == [x \in {} |-> 0]

RECURSIVE SeqMax(_)
SeqMax(s) ==
    IF s = << >> THEN -1
    ELSE LET m == SeqMax(Tail(s)) IN IF Head(s) > m THEN Head(s) ELSE m

RECURSIVE Remove(_, _)
Remove(s, x) ==
    IF s = << >> THEN << >>
    ELSE IF Head(s) = x THEN Tail(s) ELSE << Head(s) >> \o Remove(Tail(s), x)

Range(s) == {s[i] : i \in 1..Len(s)}

\* x * (1 - d / 100)
Pct(x, d) == (x \div 100) * (100 - d) + ((x % 100) * (100 - d)) \div 100

-----------------------------------------------------------------------------
(* Quote builder: the product row loop and the totals, recomputed by every *)
(* run of the builder script                                               *)

MaxDiscount == 20

\* a row's resolved product
prod(idx) == Get(selected_products, idx, SelectOpt)

unit_price(idx) == Get(lookups.price_map, prod(idx), 0)

qty(idx) == Get(qty_w, idx, 1)

discount(idx) == Get(disc_w, idx, 0)

user_color(idx) == Get(color_w, idx, DefaultColor)

\* variants of the discount rule: capped at the limit instead of dropped,
\* and taken as entered
valid_discount_capped(d) == IF d > MaxDiscount THEN MaxDiscount ELSE d

valid_discount_as_entered(d) == d

valid_discount(d) == IF d > MaxDiscount THEN 0 ELSE d

discounted_price(price, vd) == Pct(price, vd)

\* variant of the line total: the quantity is left out
line_total_per_unit(price, q, vd) == discounted_price(price, vd)

line_total(price, q, vd) == discounted_price(price, vd) * q

RowItem(idx) ==
    [Item |-> prod(idx),
     Color |-> user_color(idx),
     Image |-> Get(lookups.image_map, prod(idx), ""),
     Quantity |-> qty(idx),
     Price_per_item |-> unit_price(idx),
     Discount_pct |-> valid_discount(discount(idx)),
     Total_price |-> line_total(unit_price(idx), qty(idx),
                                valid_discount(discount(idx)))]

\* variant of the row loop: every row is committed, selected or not
RowLoop_every_row(indices) == [k \in 1..Len(indices) |-> RowItem(indices[k])]

RECURSIVE RowLoop(_)
RowLoop(indices) ==
    IF indices = << >> THEN << >>
    ELSE IF prod(Head(indices)) # SelectOpt
         THEN << RowItem(Head(indices)) >> \o RowLoop(Tail(indices))
         ELSE RowLoop(Tail(indices))

output_data == RowLoop(row_indices)

RECURSIVE SumTotals(_)
SumTotals(items) ==
    IF items = << >> THEN 0
    ELSE Head(items).Total_price + SumTotals(Tail(items))

total_sum == SumTotals(output_data)

overall_discount == IF overall_w > MaxDiscount THEN 0 ELSE overall_w

final_total == Pct(total_sum, overall_discount)

\* the builder's st.warning lines of one run
RowWarnings ==
    IF \E i \in Range(row_indices) : prod(i) # SelectOpt /\ discount(i) > MaxDiscount
    THEN {"Max 20% discount allowed. Ignoring discount."} ELSE {}

BuilderWarnings ==
    RowWarnings \cup (IF overall_w > MaxDiscount
                      THEN {"Overall discount cannot exceed 20%. Ignoring discount."}
                      ELSE {})

\* the product interface is reached: past the login gate, the details form
\* and on the builder page
InBuilder == page = "builder" /\ logged_in /\ form_submitted


-----------------------------------------------------------------------------
(* Users, login and the company details form *)

USERS ==
    [e \in {"amal@amjad.sa", "omar@amjad.sa"} |->
        IF e = "amal@amjad.sa"
        THEN [username |-> "amal", full_name |-> "Amal", password |-> "pw-a",
              role |-> "buyer"]
        ELSE [username |-> "omar", full_name |-> "Omar", password |-> "pw-o",
              role |-> "admin"]]

\* Text typed into the phone and email boxes: sequences of characters
Digits == {"0", "1", "2", "3", "4", "5", "6", "7", "8", "9"}
Letters == {"a", "b", "c", "m", "o", "x"}
LocalChars == Letters \cup Digits \cup {".", "_", "%", "+", "-"}
DomainChars == Letters \cup Digits \cup {".", "-"}

AllIn(s, chars) == \A i \in 1..Len(s) : s[i] \in chars

\* re.match(r'^\+?\d+$', s)
phone_pattern(s) ==
    LET body == IF s # << >> /\ Head(s) = "+" THEN Tail(s) ELSE s
    IN body # << >> /\ AllIn(body, Digits)

\* variant of the email test: every text passes
email_pattern_any(s) == TRUE

\* re.match(r'^[a-zA-Z0-9._%+-]+@[a-zA-Z0-9.-]+\.[a-zA-Z]{2,}$', s)
email_pattern(s) ==
    \E i \in 1..Len(s) : \E j \in (i + 1)..Len(s) :
        /\ s[i] = "@" /\ s[j] = "."
        /\ i > 1 /\ AllIn(SubSeq(s, 1, i - 1), LocalChars)
        /\ j > i + 1 /\ AllIn(SubSeq(s, i + 1, j - 1), DomainChars)
        /\ Len(s) - j >= 2 /\ AllIn(SubSeq(s, j + 1, Len(s)), Letters)

RECURSIVE StripZeros(_)
StripZeros(s) ==
    IF Len(s) > 1 /\ Head(s) = "0" THEN StripZeros(Tail(s)) ELSE s

\* str(int(float(phone))) of a phone that matched the pattern
clean_phone(s) ==
    StripZeros(IF Head(s) = "+" THEN Tail(s) ELSE s)

RECURSIVE Text(_)
Text(s) == IF s = << >> THEN "" ELSE Head(s) \o Text(Tail(s))

DefaultValidationDays == 30

\* the dict the form stores, with validation_days as the builder run that
\* follows the rerun sets it
FormDetails(company_name, contact_person, contact_email, contact_phone) ==
    [company_name |-> company_name,
     contact_person |-> contact_person,
     contact_email |-> Text(contact_email),
     contact_phone |-> Text(contact_phone),
     prepared_by |-> USERS[user_email].full_name,
     prepared_by_email |-> user_email,
     validation_days |-> DefaultValidationDays]

CompanyRow(d) ==
    [company_name |-> d.company_name, contact_person |-> d.contact_person,
     contact_email |-> d.contact_email, contact_phone |-> d.contact_phone]

company_names == {company_sheet[i].company_name : i \in 1..Len(company_sheet)}


-----------------------------------------------------------------------------
(* Document renderer of the builder: build_pdf_cached / build_pdf *)

VatPercent == 14

\* x * (p / 100)
Percent(x, p) == (x \div 100) * p + ((x % 100) * p) \div 100

\* what requests.get / PILImage.open do with one URL
Outcomes == {"ok", "timeout", "http error", "undecodable"}

\* download_image_for_pdf: a temp file name, or None for an empty URL and
\* for every failure (its except clauses return None)
download_image_for_pdf(url, outcome) ==
    IF url = "" THEN None
    ELSE IF outcome = "ok" THEN "tmp.png" ELSE None

\* variant of image_paths: the path is collected without the test for None
image_paths_unchecked(r, outcome) ==
    IF r.Image # ""
    THEN << download_image_for_pdf(r.Image, outcome) >>
    ELSE << >>

\* the paths build_pdf collects for one item (USE_TWO_IMAGES = False)
image_paths(r, outcome) ==
    IF r.Image # ""
    THEN LET temp_img_path == download_image_for_pdf(r.Image, outcome)
         IN IF temp_img_path # None THEN << temp_img_path >> ELSE << >>
    ELSE << >>

img_element(paths) == IF paths # << >> THEN "Image" ELSE "No Image"

RECURSIVE SumBase(_)
SumBase(data) ==
    IF data = << >> THEN 0
    ELSE Head(data).Price_per_item * Head(data).Quantity + SumBase(Tail(data))

\* the summary table of build_pdf
build_pdf_summary(data, total) ==
    LET subtotal == SumBase(data)
        discount_amount == subtotal - total
        vat == Percent(total, VatPercent)
    IN [subtotal |-> subtotal,
        discount_amount |-> discount_amount,
        discount_row |-> discount_amount > 0,
        total |-> total,
        vat |-> vat,
        grand_total |-> total + vat]

\* results of a render: no document, an exception that left the renderer
NoDoc == [status |-> "none"]
Raised == [status |-> "exception"]

\* build_pdf: nothing without data, an exception when doc.build raises (an
\* image flowable without a file), else the document
build_pdf(data, total, details, outcomes) ==
    IF data = << >> THEN NoDoc
    ELSE LET paths == [i \in 1..Len(data) |-> image_paths(data[i], outcomes[i])]
         IN IF \E i \in 1..Len(data) : None \in Range(paths[i])
            THEN Raised
            ELSE [status |-> "ok",
                  renderer |-> "build_pdf",
                  table |-> [i \in 1..Len(data) |->
                                [ser |-> i,
                                 image |-> img_element(paths[i]),
                                 item |-> data[i].Item,
                                 qty |-> data[i].Quantity,
                                 price |-> data[i].Price_per_item,
                                 total |-> data[i].Total_price]],
                  summary |-> build_pdf_summary(data, total),
                  company |-> Get(details, "company_name", ""),
                  terms |-> terms_text]

\* the download outcomes one render can meet: one per item
OutcomeChoices(data, outs) == [1..Len(data) -> outs]

\* the rows of a render whose image did not make it into the table
FailedRows(data, outcomes) ==
    {i \in 1..Len(data) : data[i].Image = "" \/ outcomes[i] # "ok"}

-----------------------------------------------------------------------------
(* The quotation hash: md5 of str(output_data) + str(final_total) +        *)
(* str(company_details); the digest is taken as collision-free, so the     *)
(* hash is the digested text itself                                        *)

Abs(x) == IF x < 0 THEN -x ELSE x

RECURSIVE FracDigits(_, _)
\* the digits of f / scale, 0 <= f < scale, without trailing zeros
FracDigits(f, scale) ==
    IF f = 0 \/ scale = 1 THEN ""
    ELSE ToString((f * 10) \div scale) \o FracDigits((f * 10) % scale, scale)

\* str(x) of a float, x in units of 10^-6
StrFloat(x) ==
    LET whole == Abs(x) \div SAR
        frac == FracDigits(Abs(x) % SAR, SAR)
    IN (IF x < 0 THEN "-" ELSE "") \o ToString(whole) \o "." \o
       (IF frac = "" THEN "0" ELSE frac)

\* repr of a str without quotes or backslashes in it
StrRepr(t) == "'" \o t \o "'"

StrItem(it) ==
    "{'Item': " \o StrRepr(it.Item) \o
    ", 'Color': " \o StrRepr(it.Color) \o
    ", 'Image': " \o StrRepr(it.Image) \o
    ", 'Quantity': " \o ToString(it.Quantity) \o
    ", 'Price per item': " \o StrFloat(it.Price_per_item) \o
    ", 'Discount %': " \o StrFloat(it.Discount_pct * SAR) \o
    ", 'Total price': " \o StrFloat(it.Total_price) \o "}"

RECURSIVE JoinItems(_)
JoinItems(items) ==
    IF items = << >> THEN ""
    ELSE IF Len(items) = 1 THEN StrItem(Head(items))
    ELSE StrItem(Head(items)) \o ", " \o JoinItems(Tail(items))

\* str(output_data)
StrItems(items) == "[" \o JoinItems(items) \o "]"

\* the keys of company_details in the order the code inserts them
KeyOrder ==
    << "company_name", "contact_person", "contact_email", "contact_phone",
       "prepared_by", "prepared_by_email", "warranty", "vat_note",
       "validation_days" >>

StrValue(key, v) == IF key = "validation_days" THEN ToString(v) ELSE StrRepr(v)

RECURSIVE JoinKeys(_, _, _)
JoinKeys(d, keys, first) ==
    IF keys = << >> THEN ""
    ELSE IF Head(keys) \in DOMAIN d
         THEN (IF first THEN "" ELSE ", ") \o StrRepr(Head(keys)) \o ": " \o
              StrValue(Head(keys), d[Head(keys)]) \o JoinKeys(d, Tail(keys), FALSE)
         ELSE JoinKeys(d, Tail(keys), first)

\* str(company_details)
StrDict(d) == "{" \o JoinKeys(d, KeyOrder, TRUE) \o "}"

\* variant of the hashed text: the total is left out
data_str_without_total(items, total, details) ==
    StrItems(items) \o StrDict(details)

data_str(items, total, details) ==
    StrItems(items) \o StrFloat(total) \o StrDict(details)

\* variant of the hash: the terms text is hashed too
data_hash_with_terms(items, total, details) ==
    data_str(items, total, details) \o terms_text

data_hash(items, total, details) == data_str(items, total, details)


-----------------------------------------------------------------------------
(* History records and the history sheet *)

\* round(x, 2): the nearest multiple of 0.01, a tie going to the even one
Round2(x) ==
    LET q == x \div Cent
        r == x % Cent
    IN IF 2 * r < Cent THEN q * Cent
       ELSE IF 2 * r > Cent THEN (q + 1) * Cent
       ELSE IF q % 2 = 0 THEN q * Cent ELSE (q + 1) * Cent

\* variant of new_record: the sum of the lines is stored as the total
new_record_of_subtotal(items, total, details, hash) ==
    [user_email |-> user_email,
     company_name |-> details.company_name,
     contact_person |-> details.contact_person,
     total |-> Round2(SumTotals(items)),
     items |-> items,
     quotation_hash |-> hash,
     hash |-> None,
     has_details |-> FALSE,
     company_details |-> Empty]

\* new_record of Generate PDF: it has the key "quotation_hash" and no key
\* "hash" (None stands for a key the dict lacks) or "company_details"
new_record(items, total, details, hash) ==
    [user_email |-> user_email,
     company_name |-> details.company_name,
     contact_person |-> details.contact_person,
     total |-> Round2(total),
     items |-> items,
     quotation_hash |-> hash,
     hash |-> None,
     has_details |-> FALSE,
     company_details |-> Empty]

\* the row append_row writes
SheetRow(rec) ==
    [user_email |-> rec.user_email,
     company_name |-> rec.company_name,
     contact_person |-> rec.contact_person,
     total |-> rec.total,
     items |-> rec.items,
     hash |-> rec.quotation_hash]

\* get_as_dataframe reads the cells of the sheet through the parser of the
\* data frame library: a text cell that spells a missing value comes back as
\* the float NaN (the loaders test for it with pd.notna and "nan"), any
\* other text of the model as itself
NaTexts == {"", "NA", "N/A", "n/a", "NULL", "null", "NaN", "nan", "None"}
NaN == "float nan"

read_cell(text) == IF text \in NaTexts THEN NaN ELSE text

\* the hash a record gets for a row whose "Quotation Hash" cell is empty:
\* md5 of the row's company name and total
fallback_hash(row) ==
    "fallback:" \o row.company_name \o ":" \o StrFloat(row.total)

stored_hash(row) ==
    IF read_cell(row.hash) = NaN THEN fallback_hash(row) ELSE row.hash

\* str.lower() of the email texts of the model
lower(text) == IF text = "Amal@Amjad.SA" THEN "amal@amjad.sa" ELSE text

\* variant of the user's rows: the rows of every user
UserRows_of_everyone(rows, email) == rows

\* df[df["User Email"].str.lower() == user_email.lower()]
RECURSIVE UserRows(_, _)
UserRows(rows, email) ==
    IF rows = << >> THEN << >>
    ELSE IF lower(Head(rows).user_email) = lower(email)
         THEN << Head(rows) >> \o UserRows(Tail(rows), email)
         ELSE UserRows(Tail(rows), email)

\* an "Items JSON" cell json.loads raises on
NotJson == "not json"

\* the rows the loop over user_rows keeps: a row whose conversion raises is
\* skipped with a warning
Converted(rows) == SelectSeq(rows, LAMBDA r : r.items # NotJson)

skip_warnings(email, sheet) ==
    IF Converted(UserRows(sheet, email)) # UserRows(sheet, email)
    THEN {"Skipping malformed row"} ELSE {}

\* load_user_history_from_sheet as the login run calls it (the first
\* definition of the builder script): no "company_details" key
load_history_at_login(email, sheet) ==
    LET rows == Converted(UserRows(sheet, email))
    IN [i \in 1..Len(rows) |->
          [user_email |-> rows[i].user_email,
           company_name |-> read_cell(rows[i].company_name),
           contact_person |-> read_cell(rows[i].contact_person),
           total |-> rows[i].total,
           items |-> rows[i].items,
           quotation_hash |-> None,
           hash |-> read_cell(rows[i].hash),
           has_details |-> FALSE,
           company_details |-> Empty]]

\* load_user_history_from_sheet as Generate PDF and the history page call it:
\* the sheet has no "Company Details JSON" column, so company_details = {}
load_user_history_from_sheet(email, sheet) ==
    LET rows == Converted(UserRows(sheet, email))
    IN [i \in 1..Len(rows) |->
          [user_email |-> rows[i].user_email,
           company_name |-> read_cell(rows[i].company_name),
           contact_person |-> read_cell(rows[i].contact_person),
           total |-> rows[i].total,
           items |-> rows[i].items,
           quotation_hash |-> None,
           hash |-> stored_hash(rows[i]),
           has_details |-> TRUE,
           company_details |-> Empty]]

-----------------------------------------------------------------------------
(* Initial state: init_session_state and the sheets as the app finds them  *)

InitFrom(catalogs, sheet_states, stored) ==
    /\ catalog \in catalogs
    /\ sheet_up \in sheet_states
    /\ history_sheet = stored
    /\ company_sheet = << >>
    /\ logged_in = FALSE
    /\ user_email = None
    /\ role = None
    /\ form_submitted = FALSE
    /\ company_details = Empty
    /\ row_indices = << 0 >>
    /\ selected_products = Empty
    /\ qty_w = Empty
    /\ disc_w = Empty
    /\ color_w = Empty
    /\ overall_w = 0
    /\ terms_reviewed = FALSE
    /\ show_edit_terms = FALSE
    /\ terms_text = "Prices are in Saudi Riyal (SAR)."
    /\ history = << >>
    /\ history_loaded = FALSE
    /\ pdf_data = << >>
    /\ page = "builder"
    /\ pdf_out = NoDoc
    /\ pdf_cache = Empty
    /\ messages = {}
    /\ confirm_delete = Empty
    /\ search_input = << >>
    /\ gen_log = << >>

\* the history sheet is empty when the app is first used
InitWith(catalogs, sheet_states) == InitFrom(catalogs, sheet_states, << >>)

env == << catalog, sheet_up >>
sheets == << history_sheet, company_sheet >>
identity == << logged_in, user_email, role >>
rows == << row_indices, selected_products, qty_w, disc_w, color_w >>
terms == << terms_reviewed, show_edit_terms, terms_text >>
archive == << history, history_loaded, pdf_data, pdf_cache, gen_log >>
listing == << confirm_delete, search_input >>

-----------------------------------------------------------------------------
(* Login *)

\* variant of the credential test: a known email is enough
authenticate_by_email(email, password) == email \in DOMAIN USERS

\* user = USERS.get(email); user and user["password"] == password
authenticate(email, password) ==
    email \in DOMAIN USERS /\ USERS[email].password = password

Login(email, password) ==
    /\ page = "builder"
    /\ ~logged_in
    /\ IF authenticate(email, password)
       THEN /\ logged_in' = TRUE
            /\ user_email' = email
            /\ role' = USERS[email].role
            \* the rerun loads the history once
            /\ IF ~history_loaded /\ sheet_up
               THEN /\ history' = load_history_at_login(email, history_sheet)
                    /\ history_loaded' = TRUE
                    /\ messages' = skip_warnings(email, history_sheet)
               ELSE /\ messages' = {}
                    /\ UNCHANGED << history, history_loaded >>
       ELSE /\ messages' = {"Incorrect email or password."}
            /\ UNCHANGED << identity, history, history_loaded >>
    /\ pdf_out' = NoDoc
    /\ UNCHANGED << env, listing, sheets, form_submitted, company_details, rows,
                    overall_w, terms, pdf_data, pdf_cache, gen_log, page >>

\* the sidebar's Logout: every key of the session state is deleted and the
\* rerun's init_session_state sets the defaults; the sheets and the cache of
\* built documents are not session state
Logout ==
    /\ page = "builder" /\ logged_in
    /\ logged_in' = FALSE
    /\ user_email' = None
    /\ role' = None
    /\ form_submitted' = FALSE
    /\ company_details' = Empty
    /\ row_indices' = << 0 >>
    /\ selected_products' = Empty
    /\ qty_w' = Empty /\ disc_w' = Empty /\ color_w' = Empty
    /\ overall_w' = 0
    /\ terms_reviewed' = FALSE
    /\ show_edit_terms' = FALSE
    /\ terms_text' = "Prices are in Saudi Riyal (SAR)."
    /\ history' = << >>
    /\ history_loaded' = FALSE
    /\ pdf_data' = << >>
    /\ confirm_delete' = Empty
    /\ search_input' = << >>
    /\ messages' = {}
    /\ pdf_out' = NoDoc
    /\ UNCHANGED << env, sheets, pdf_cache, gen_log, page >>

\* a page opened from the sidebar's page list without a login: the builder
\* script shows the login form, the history script its "Protect Access"
\* message, and both stop.  (With a login the list acts as GoHistory and
\* BackToBuilder do.)
OpenPage(target) ==
    /\ ~logged_in
    /\ target \in {"builder", "history"} /\ target # page
    /\ page' = target
    /\ messages' = IF target = "history" THEN {"Please log in first."} ELSE {}
    /\ pdf_out' = NoDoc
    /\ UNCHANGED << env, listing, sheets, identity, form_submitted,
                    company_details, rows, overall_w, terms, archive >>

-----------------------------------------------------------------------------
(* Company details form *)

CreateNew == "-- Create New --"

SubmitDetails(selected_company, company_name, contact_person, contact_email, contact_phone) ==
    /\ page = "builder" /\ logged_in /\ ~form_submitted
    /\ selected_company \in {CreateNew} \cup company_names
    /\ pdf_out' = NoDoc
    /\ UNCHANGED << env, listing, history_sheet, identity, rows, overall_w, terms,
                    archive, page >>
    /\ IF company_name = ""
       THEN /\ messages' = {"Please enter the Company Name."}
            /\ UNCHANGED << form_submitted, company_details, company_sheet >>
       ELSE IF contact_person = ""
       THEN /\ messages' = {"Please enter the Contact Person."}
            /\ UNCHANGED << form_submitted, company_details, company_sheet >>
       ELSE LET bad_phone == contact_phone # << >> /\ ~phone_pattern(contact_phone)
                phone == IF contact_phone # << >> /\ phone_pattern(contact_phone)
                         THEN clean_phone(contact_phone)
                         ELSE contact_phone
                phone_errors == IF bad_phone THEN {"Invalid phone number format."}
                                ELSE {}
                details == FormDetails(company_name, contact_person,
                                       contact_email, phone)
            IN IF contact_email # << >> /\ ~email_pattern(contact_email)
               THEN \* st.error and st.stop()
                    /\ messages' = phone_errors \cup {"Invalid email format."}
                    /\ UNCHANGED << form_submitted, company_details,
                                    company_sheet >>
               ELSE /\ messages' = phone_errors
                    /\ form_submitted' = TRUE
                    /\ company_details' = details
                    /\ IF selected_company = CreateNew
                          \/ selected_company # company_name
                       THEN company_sheet' =
                               Append(company_sheet, CompanyRow(details))
                       ELSE UNCHANGED company_sheet

EditCompanyInfo ==
    /\ page = "builder" /\ logged_in /\ form_submitted
    /\ form_submitted' = FALSE
    \* no builder widget is drawn while the form is shown: Streamlit drops
    \* the state of the widgets a run does not draw
    /\ qty_w' = Empty /\ disc_w' = Empty /\ color_w' = Empty /\ overall_w' = 0
    /\ messages' = {}
    /\ pdf_out' = NoDoc
    /\ UNCHANGED << env, listing, sheets, identity, company_details, row_indices,
                    selected_products, terms, archive, page >>

NewQuotation ==
    /\ page = "builder" /\ logged_in /\ form_submitted
    /\ form_submitted' = FALSE
    /\ company_details' =
          [company_name |-> "", contact_person |-> "", contact_email |-> "",
           contact_phone |-> "",
           prepared_by |-> USERS[user_email].full_name,
           prepared_by_email |-> user_email]
    /\ pdf_data' = << >>
    /\ selected_products' = Empty
    /\ row_indices' = << 0 >>
    \* no builder widget is drawn while the form is shown
    /\ qty_w' = Empty /\ disc_w' = Empty /\ color_w' = Empty /\ overall_w' = 0
    /\ messages' = {}
    /\ pdf_out' = NoDoc
    /\ UNCHANGED << env, listing, sheets, identity, terms, history, history_loaded,
                    pdf_cache, gen_log, page >>


-----------------------------------------------------------------------------
(* Product rows *)

\* on_name_change of row idx: the row's widgets are drawn with their
\* defaults when a product appears, and forgotten when it goes
SelectProduct(idx, name) ==
    /\ InBuilder
    /\ idx \in Range(row_indices)
    /\ name \in name_options \cup {SelectOpt}
    /\ name # prod(idx)
    /\ selected_products' = Put(selected_products, idx, name)
    /\ IF name = SelectOpt
       THEN /\ qty_w' = Drop(qty_w, idx)
            /\ disc_w' = Drop(disc_w, idx)
            /\ color_w' = Drop(color_w, idx)
       ELSE /\ qty_w' = Put(qty_w, idx, qty(idx))
            /\ disc_w' = Put(disc_w, idx, discount(idx))
            /\ color_w' = Put(color_w, idx, user_color(idx))
    /\ messages' = {}
    /\ pdf_out' = NoDoc
    /\ UNCHANGED << env, listing, sheets, identity, form_submitted, company_details,
                    row_indices, overall_w, terms, archive, page >>

\* on_code_change of row idx
SelectCode(idx, code) ==
    /\ InBuilder
    /\ idx \in Range(row_indices)
    /\ code \in {lookups.code_map[n] : n \in name_options} \ {""}
    /\ LET first == CHOOSE i \in 1..Len(lookups.products) :
                       /\ lookups.code_map[lookups.products[i]] = code
                       /\ \A j \in 1..(i - 1) :
                             lookups.code_map[lookups.products[j]] # code
           resolved_name == lookups.products[first]
       IN /\ resolved_name # prod(idx)
          /\ selected_products' = Put(selected_products, idx, resolved_name)
          /\ qty_w' = Put(qty_w, idx, qty(idx))
          /\ disc_w' = Put(disc_w, idx, discount(idx))
          /\ color_w' = Put(color_w, idx, user_color(idx))
    /\ messages' = {}
    /\ pdf_out' = NoDoc
    /\ UNCHANGED << env, listing, sheets, identity, form_submitted, company_details,
                    row_indices, overall_w, terms, archive, page >>

SetQuantity(idx, q) ==
    /\ InBuilder
    /\ idx \in Range(row_indices) /\ prod(idx) # SelectOpt
    /\ q >= 1 /\ q # qty(idx)
    /\ qty_w' = Put(qty_w, idx, q)
    /\ messages' = {}
    /\ pdf_out' = NoDoc
    /\ UNCHANGED << env, listing, sheets, identity, form_submitted, company_details,
                    row_indices, selected_products, disc_w, color_w, overall_w,
                    terms, archive, page >>

SetDiscount(idx, d) ==
    /\ InBuilder
    /\ idx \in Range(row_indices) /\ prod(idx) # SelectOpt
    /\ d >= 0 /\ d <= 100 /\ d # discount(idx)
    /\ disc_w' = Put(disc_w, idx, d)
    /\ messages' = {}
    /\ pdf_out' = NoDoc
    /\ UNCHANGED << env, listing, sheets, identity, form_submitted, company_details,
                    row_indices, selected_products, qty_w, color_w, overall_w,
                    terms, archive, page >>

SetColor(idx, c) ==
    /\ InBuilder
    /\ idx \in Range(row_indices) /\ prod(idx) # SelectOpt
    /\ c # user_color(idx)
    /\ color_w' = Put(color_w, idx, c)
    /\ messages' = {}
    /\ pdf_out' = NoDoc
    /\ UNCHANGED << env, listing, sheets, identity, form_submitted, company_details,
                    row_indices, selected_products, qty_w, disc_w, overall_w,
                    terms, archive, page >>

\* the row's X button
ClearRow(idx) ==
    /\ InBuilder
    /\ idx \in Range(row_indices)
    /\ row_indices' = Remove(row_indices, idx)
    /\ selected_products' = Drop(selected_products, idx)
    /\ qty_w' = Drop(qty_w, idx)
    /\ disc_w' = Drop(disc_w, idx)
    /\ color_w' = Drop(color_w, idx)
    /\ messages' = {}
    /\ pdf_out' = NoDoc
    /\ UNCHANGED << env, listing, sheets, identity, form_submitted, company_details,
                    overall_w, terms, archive, page >>

AddProduct ==
    /\ InBuilder
    /\ Len(row_indices) < MaxRows
    /\ SeqMax(row_indices) + 1 < MaxRows
    /\ row_indices' = Append(row_indices, SeqMax(row_indices) + 1)
    /\ messages' = {}
    /\ pdf_out' = NoDoc
    /\ UNCHANGED << env, listing, sheets, identity, form_submitted, company_details,
                    selected_products, qty_w, disc_w, color_w, overall_w,
                    terms, archive, page >>

SetOverallDiscount(d) ==
    /\ InBuilder
    /\ d >= 0 /\ d <= 100 /\ d # overall_w
    /\ overall_w' = d
    /\ messages' = {}
    /\ pdf_out' = NoDoc
    /\ UNCHANGED << env, listing, sheets, identity, form_submitted, company_details,
                    rows, terms, archive, page >>

SetValidationDays(n) ==
    /\ InBuilder
    /\ n >= 1 /\ n <= 365 /\ n # company_details.validation_days
    /\ company_details' = [company_details EXCEPT !.validation_days = n]
    /\ messages' = {}
    /\ pdf_out' = NoDoc
    /\ UNCHANGED << env, listing, sheets, identity, form_submitted, rows, overall_w,
                    terms, archive, page >>

-----------------------------------------------------------------------------
(* Terms & Conditions *)

OpenTerms ==
    /\ InBuilder
    /\ ~show_edit_terms
    /\ show_edit_terms' = TRUE
    /\ messages' = {}
    /\ pdf_out' = NoDoc
    /\ UNCHANGED << env, listing, sheets, identity, form_submitted, company_details,
                    rows, overall_w, terms_reviewed, terms_text, archive,
                    page >>

\* the buyer's Close and the admin's Cancel
CloseTerms(reviewed) ==
    /\ InBuilder
    /\ show_edit_terms
    /\ terms_reviewed' = reviewed
    /\ show_edit_terms' = FALSE
    /\ messages' = {}
    /\ pdf_out' = NoDoc
    /\ UNCHANGED << env, listing, sheets, identity, form_submitted, company_details,
                    rows, overall_w, terms_text, archive, page >>

SaveTerms(new_terms, reviewed) ==
    /\ InBuilder
    /\ show_edit_terms /\ role = "admin"
    /\ terms_text' = new_terms
    /\ terms_reviewed' = reviewed
    /\ show_edit_terms' = FALSE
    /\ messages' = {}
    /\ pdf_out' = NoDoc
    /\ UNCHANGED << env, listing, sheets, identity, form_submitted, company_details,
                    rows, overall_w, archive, page >>


-----------------------------------------------------------------------------
(* Widgets of the product rows as one builder run draws them *)

Selected(indices, sel) ==
    {i \in Range(indices) : Get(sel, i, SelectOpt) # SelectOpt}

Draw(w, indices, sel, default) ==
    [i \in Selected(indices, sel) |-> Get(w, i, default)]

-----------------------------------------------------------------------------
(* Generate PDF Quotation *)

GenEntry(items, total, details, hash) ==
    [items |-> items, total |-> total, details |-> details, hash |-> hash,
     user |-> user_email, terms |-> terms_text]

\* variant of the terms gate: Generate PDF does not ask for the review
TermsReviewed_always == TRUE

\* st.session_state.get("terms_reviewed", False)
TermsReviewed == terms_reviewed

\* variant of the append: the row is written twice
append_row_twice(sheet, row, ok) ==
    IF ok THEN Append(Append(sheet, row), row) ELSE sheet

\* history_sheet.append_row(row) inside try / except: the sheet with the row
\* at its end, or the sheet as it was when the append raised
append_row(sheet, row, ok) == IF ok THEN Append(sheet, row) ELSE sheet

\* variant of the store's messages: a failure is passed over in silence
store_messages_silent(append_ok, reload_ok) == {}

\* what Generate PDF tells the user about the history store
store_messages(append_ok, reload_ok) ==
    (IF ~sheet_up
     THEN {"Could not connect to Google Sheet. Quotation saved locally only.",
           "Failed to connect to Google Sheets."}
     ELSE IF append_ok THEN {}
     ELSE {"Saved locally, but failed to save to Google Sheet"})
    \cup (IF sheet_up /\ ~reload_ok THEN {"Failed to load history"} ELSE {})

GeneratePDF(outcomes, append_ok, reload_ok, max_gen) ==
    /\ InBuilder
    /\ outcomes \in OutcomeChoices(output_data, Outcomes)
    /\ UNCHANGED << env, listing, company_sheet, identity, form_submitted,
                    company_details, rows, overall_w, terms_reviewed,
                    terms_text, history_loaded, page >>
    /\ IF output_data = << >>
       THEN \* the button's condition fails: a plain rerun
            /\ messages' = {}
            /\ pdf_out' = NoDoc
            /\ UNCHANGED << history_sheet, show_edit_terms, history, pdf_data,
                            pdf_cache, gen_log >>
       ELSE IF ~TermsReviewed
       THEN /\ messages' = {"Please review the Terms & Conditions first."}
            /\ show_edit_terms' = TRUE
            /\ pdf_out' = NoDoc
            /\ UNCHANGED << history_sheet, history, pdf_data, pdf_cache,
                            gen_log >>
       ELSE LET hash == data_hash(output_data, final_total, company_details)
                key == << hash, final_total, company_details >>
                pdf_file == IF key \in DOMAIN pdf_cache THEN pdf_cache[key]
                            ELSE build_pdf(output_data, final_total,
                                           company_details, outcomes)
                rec == new_record(output_data, final_total, company_details,
                                  hash)
                appended == sheet_up /\ append_ok
                sheet_after == append_row(history_sheet, SheetRow(rec),
                                          appended)
            IN /\ Len(gen_log) < max_gen
               /\ pdf_data' = output_data
               /\ UNCHANGED show_edit_terms
               /\ IF pdf_file.status = "exception"
                  THEN \* doc.build raised: the run ends here
                       /\ messages' = {"exception"}
                       /\ pdf_out' = NoDoc
                       /\ UNCHANGED << history_sheet, history, pdf_cache,
                                       gen_log >>
                  ELSE /\ pdf_cache' = Put(pdf_cache, key, pdf_file)
                       /\ history_sheet' = sheet_after
                       /\ history' =
                             IF sheet_up
                             THEN IF reload_ok
                                  THEN load_user_history_from_sheet(
                                           user_email, sheet_after)
                                  ELSE << >>
                             ELSE Append(history, rec)
                       /\ messages' =
                             store_messages(append_ok, reload_ok)
                             \cup (IF sheet_up /\ reload_ok
                                   THEN skip_warnings(user_email, sheet_after)
                                   ELSE {})
                       /\ pdf_out' = pdf_file
                       /\ gen_log' = Append(gen_log,
                                            GenEntry(output_data, final_total,
                                                     company_details, hash))

-----------------------------------------------------------------------------
(* History page: pages/history.py *)

HistoryVatPercent == 15

\* history.py imports no PageBreak from reportlab.platypus
PageBreakImported == FALSE

\* the keys generate_pdf_from_data reads with company_details[...]
RequiredKeys ==
    {"company_name", "contact_person", "contact_phone", "prepared_by",
     "prepared_by_email", "warranty", "vat_note"}

\* the summary section of generate_pdf_from_data
history_pdf_summary(items, total) ==
    LET subtotal == SumBase(items)
        discount_amount == subtotal - total
        vat == Percent(total, HistoryVatPercent)
    IN [subtotal |-> subtotal,
        discount_amount |-> discount_amount,
        discount_row |-> discount_amount > 0,
        total |-> total,
        vat |-> vat,
        grand_total |-> total + vat]

\* the image cell of generate_pdf_from_data
history_img_element(r, outcome) ==
    IF r.Image # "" /\ outcome = "ok" THEN "Image" ELSE "No Image"

generate_pdf_from_data(items, total, details, outcomes) ==
    IF ~(RequiredKeys \subseteq DOMAIN details) THEN Raised   \* KeyError
    ELSE IF ~PageBreakImported THEN Raised                    \* NameError
    ELSE [status |-> "ok",
          renderer |-> "generate_pdf_from_data",
          table |-> [i \in 1..Len(items) |->
                        [ser |-> i,
                         image |-> history_img_element(items[i], outcomes[i]),
                         item |-> items[i].Item,
                         qty |-> items[i].Quantity,
                         price |-> items[i].Price_per_item,
                         total |-> items[i].Total_price]],
          summary |-> history_pdf_summary(items, total),
          company |-> details.company_name,
          terms |-> details.warranty]

OnHistory == page = "history" /\ logged_in

\* the sidebar's Quotation History button; the builder's widgets are not
\* drawn on the other page, so their state is dropped
GoHistory ==
    /\ page = "builder" /\ logged_in
    /\ page' = "history"
    /\ qty_w' = Empty /\ disc_w' = Empty /\ color_w' = Empty /\ overall_w' = 0
    /\ messages' = {}
    /\ pdf_out' = NoDoc
    /\ UNCHANGED << env, listing, sheets, identity, form_submitted, company_details,
                    row_indices, selected_products, terms, archive >>

BackToBuilder ==
    /\ OnHistory
    /\ page' = "builder"
    /\ search_input' = << >>   \* the search box is not drawn there
    /\ IF form_submitted
       THEN /\ qty_w' = Draw(qty_w, row_indices, selected_products, 1)
            /\ disc_w' = Draw(disc_w, row_indices, selected_products, 0)
            /\ color_w' = Draw(color_w, row_indices, selected_products,
                               DefaultColor)
       ELSE UNCHANGED << qty_w, disc_w, color_w >>
    /\ messages' = {}
    /\ pdf_out' = NoDoc
    /\ UNCHANGED << env, confirm_delete, sheets, identity, form_submitted, company_details,
                    row_indices, selected_products, overall_w, terms,
                    archive >>

RefreshHistory(reload_ok) ==
    /\ OnHistory
    /\ IF sheet_up
       THEN /\ history' = IF reload_ok
                          THEN load_user_history_from_sheet(user_email,
                                                            history_sheet)
                          ELSE << >>
            /\ messages' = IF reload_ok
                           THEN skip_warnings(user_email, history_sheet)
                           ELSE {"Failed to load history"}
       ELSE /\ messages' = {"Failed to connect to Google Sheets."}
            /\ UNCHANGED history
    /\ pdf_out' = NoDoc
    /\ UNCHANGED << env, listing, sheets, identity, form_submitted, company_details,
                    rows, overall_w, terms, history_loaded, pdf_data,
                    pdf_cache, gen_log, page >>

\* "" for NaN, else str(value).lower(): the characters of the lower-cased
\* text, for the company names on the history sheets of the model
safe_lower(value) ==
    CASE value = NaN -> << >>
      [] value = "Acme" -> << "a", "c", "m", "e" >>
      [] value = "Bolt" -> << "b", "o", "l", "t" >>
      [] value = "Core" -> << "c", "o", "r", "e" >>

\* term in text
IsSubstring(term, text) ==
    \E k \in 0..(Len(text) - Len(term)) :
       SubSeq(text, k + 1, k + Len(term)) = term

\* history[i] is in filtered_history
Displayed(i) ==
    \/ search_input = << >>
    \/ IsSubstring(search_input, safe_lower(history[i].company_name))

\* filtered_history, as the positions in history of its records
FilteredPos ==
    SelectSeq([i \in 1..Len(history) |-> i], LAMBDA i : Displayed(i))

\* enumerate(reversed(filtered_history)): the position in history of the
\* record drawn with index idx, and the record
ShownPos(idx) == FilteredPos[Len(FilteredPos) - idx]

Shown(idx) == history[ShownPos(idx)]

\* The page draws reversed(filtered_history); the Delete button of a record
\* reads quote['hash'], so the run ends at the first record drawn that lacks
\* the key.  A record's Regenerate button is drawn before its Delete button,
\* its Edit button after.
RegenDrawn(i) ==
    /\ Displayed(i)
    /\ \A j \in (i + 1)..Len(history) : Displayed(j) => history[j].hash # None

EditDrawn(i) ==
    /\ Displayed(i)
    /\ \A j \in i..Len(history) : Displayed(j) => history[j].hash # None

DeleteDrawn(idx) ==
    /\ idx \in 0..(Len(FilteredPos) - 1)
    /\ \A k \in 0..idx : Shown(k).hash # None

\* a dict that is not empty
Truthy(d) == DOMAIN d # {}

RegeneratePDF(i, outcomes) ==
    /\ OnHistory
    /\ i \in 1..Len(history) /\ RegenDrawn(i)
    /\ outcomes \in OutcomeChoices(history[i].items, Outcomes)
    /\ LET quote == history[i]
           temp_details == IF Truthy(quote.company_details)
                           THEN quote.company_details ELSE company_details
           pdf_file == generate_pdf_from_data(quote.items, quote.total,
                                              temp_details, outcomes)
       IN IF pdf_file.status = "exception"
          THEN /\ messages' = {"Failed to generate PDF"}
               /\ pdf_out' = NoDoc
          ELSE /\ messages' = {}
               /\ pdf_out' = pdf_file
    /\ UNCHANGED << env, listing, sheets, identity, form_submitted, company_details,
                    rows, overall_w, terms, archive, page >>

EditFallback(quote) ==
    [company_name |-> quote.company_name,
     contact_person |-> quote.contact_person,
     contact_email |-> "",
     contact_phone |-> "",
     prepared_by |-> USERS[user_email].username,
     prepared_by_email |-> user_email,
     warranty |-> "1 year",
     vat_note |-> "Prices exclude 14% VAT"]

\* variant of the restore: the rows' inputs are left to their defaults
restore_input_not(items, field) == Empty

\* st.session_state[qty_key] = item["Quantity"] and
\* st.session_state[disc_key] = item["Discount %"], for i, item in
\* enumerate(quote["items"])
restore_input(items, field) ==
    [k \in 0..(Len(items) - 1) |-> items[k + 1][field]]

EditQuotation(i) ==
    /\ OnHistory
    /\ i \in 1..Len(history) /\ EditDrawn(i)
    /\ LET quote == history[i]
           n == Len(quote.items)
           restored == IF Truthy(quote.company_details)
                       THEN quote.company_details ELSE EditFallback(quote)
       IN /\ form_submitted' = TRUE
          \* the builder run after switch_page sets validation_days
          /\ company_details' =
                Put(restored, "validation_days",
                    Get(restored, "validation_days", DefaultValidationDays))
          /\ row_indices' = [k \in 1..n |-> k - 1]
          /\ selected_products' = [k \in 0..(n - 1) |-> quote.items[k + 1].Item]
          /\ qty_w' = restore_input(quote.items, "Quantity")
          /\ disc_w' = restore_input(quote.items, "Discount_pct")
          /\ color_w' = [k \in 0..(n - 1) |-> DefaultColor]
    /\ page' = "builder"
    /\ search_input' = << >>   \* the search box is not drawn there
    /\ messages' = {}
    /\ pdf_out' = NoDoc
    /\ UNCHANGED << env, confirm_delete, sheets, identity, overall_w, terms, archive >>

\* typing into the search box
SetSearch(term) ==
    /\ OnHistory
    /\ term # search_input
    /\ search_input' = term
    /\ messages' = {}
    /\ pdf_out' = NoDoc
    /\ UNCHANGED << env, sheets, identity, form_submitted, company_details,
                    rows, overall_w, terms, archive, page, confirm_delete >>

\* list.pop(i - 1)
RemoveAt(s, i) == [k \in 1..(Len(s) - 1) |-> IF k < i THEN s[k] ELSE s[k + 1]]

\* original_idx = len(history) - 1 - idx; history.pop(original_idx)
pop_original_idx(idx) == RemoveAt(history, Len(history) - idx)

\* df[df["Quotation Hash"] == quote["hash"]]: the rows of the sheet whose
\* hash cell equals the record's hash (an empty cell equals nothing)
matching_rows(quote) ==
    {i \in 1..Len(history_sheet) :
        /\ read_cell(history_sheet[i].hash) # NaN
        /\ history_sheet[i].hash = quote.hash}

\* The Delete button of the record drawn with index idx.  The flag
\* confirm_delete_{idx} is True once set; the model keeps with it the company
\* of the record that was drawn at idx when the press set it (the sheets of
\* the model hold one quote per company), which the code does not read.
\* delete_ok: get_as_dataframe and delete_rows do not raise.
Delete(idx, delete_ok) ==
    /\ OnHistory
    /\ DeleteDrawn(idx)
    /\ pdf_out' = NoDoc
    /\ UNCHANGED << env, company_sheet, identity, form_submitted,
                    company_details, rows, overall_w, terms, history_loaded,
                    pdf_data, pdf_cache, gen_log, page, search_input >>
    /\ IF idx \notin DOMAIN confirm_delete
       THEN /\ confirm_delete' = Put(confirm_delete, idx,
                                      Shown(idx).company_name)
            /\ messages' = {"Press 'Delete' again to confirm."}
            /\ UNCHANGED << history_sheet, history >>
       ELSE /\ UNCHANGED confirm_delete
            /\ IF ~sheet_up
               THEN /\ messages' = {"Cannot connect to Google Sheet."}
                    /\ UNCHANGED history_sheet
                    /\ history' = pop_original_idx(idx)
               ELSE IF ~delete_ok
               THEN /\ messages' = {"Failed to delete from Google Sheet"}
                    /\ UNCHANGED << history_sheet, history >>
               ELSE IF matching_rows(Shown(idx)) = {}
               THEN /\ messages' =
                          {"This quotation was not found in the Google Sheet."}
                    /\ UNCHANGED history_sheet
                    /\ history' = pop_original_idx(idx)
               ELSE LET first == CHOOSE i \in matching_rows(Shown(idx)) :
                                    \A j \in matching_rows(Shown(idx)) : i <= j
                    IN /\ history_sheet' = RemoveAt(history_sheet, first)
                       /\ messages' = {}
                       /\ history' = pop_original_idx(idx)

\* the history spreadsheet becomes unreachable, or reachable again
SheetConnection(up) ==
    /\ sheet_up # up
    /\ sheet_up' = up
    /\ UNCHANGED << catalog, sheets, identity, form_submitted, company_details,
                    rows, overall_w, terms, archive, page, pdf_out, messages,
                    listing >>

-----------------------------------------------------------------------------
(* Inputs *)

RowIds == 0..(MaxRows - 1)
Quantities == 1..MaxQty
DiscountInputs == {0, 5, 20, 21}
Buyer == "amal@amjad.sa"
Admin == "omar@amjad.sa"

-----------------------------------------------------------------------------
(* Specification of the quote builder: one buyer and the row edits         *)

InitBuilder == InitWith({CatalogA}, {TRUE})

NextBuilder ==
    \/ \E pw \in {"pw-a", "guess"} : Login(Buyer, pw)
    \/ SubmitDetails(CreateNew, "Acme", "Sara", << >>, << >>)
    \/ \E idx \in RowIds : \E name \in name_options \cup {SelectOpt} :
          SelectProduct(idx, name)
    \/ \E idx \in RowIds : SelectCode(idx, "CH-1")
    \/ \E idx \in RowIds : \E q \in Quantities : SetQuantity(idx, q)
    \/ \E idx \in RowIds : \E d \in DiscountInputs : SetDiscount(idx, d)
    \/ \E idx \in RowIds : ClearRow(idx)
    \/ AddProduct
    \/ \E d \in DiscountInputs : SetOverallDiscount(d)

SpecBuilder == InitBuilder /\ [][NextBuilder]_vars


-----------------------------------------------------------------------------
(* Specification of the builder over every product sheet of the model      *)

InitCatalog == InitWith(Catalogs, {TRUE})

NextCatalog ==
    \/ Login(Buyer, "pw-a")
    \/ SubmitDetails(CreateNew, "Acme", "Sara", << >>, << >>)
    \/ \E idx \in RowIds : \E name \in name_options \cup {SelectOpt} :
          SelectProduct(idx, name)
    \/ \E idx \in RowIds : \E q \in Quantities : SetQuantity(idx, q)
    \/ \E idx \in RowIds : \E d \in {5, 21} : SetDiscount(idx, d)
    \/ AddProduct
    \/ \E d \in {5, 21} : SetOverallDiscount(d)

SpecCatalog == InitCatalog /\ [][NextCatalog]_vars

-----------------------------------------------------------------------------
(* Specification of a quote's life: drafted, generated, archived, shown on *)
(* the history page, restored and regenerated.  The rows are edited while  *)
(* the quote is a draft, that is until the session generates a document.   *)

Drafting == gen_log = << >>

InitQuote == InitWith({CatalogA}, BOOLEAN)

NextQuote ==
    \/ Login(Buyer, "pw-a")
    \/ SubmitDetails(CreateNew, "Acme", "Sara", << >>, << >>)
    \/ Drafting /\ \E idx \in RowIds : SelectProduct(idx, "Desk")
    \/ Drafting /\ \E idx \in RowIds : \E q \in Quantities : SetQuantity(idx, q)
    \/ Drafting /\ \E idx \in RowIds : \E d \in {5, 21} : SetDiscount(idx, d)
    \/ Drafting /\ AddProduct
    \/ Drafting /\ \E d \in {5, 21} : SetOverallDiscount(d)
    \/ Drafting /\ OpenTerms
    \/ Drafting /\ CloseTerms(TRUE)
    \/ \E outcomes \in OutcomeChoices(output_data, {"ok"}) :
          GeneratePDF(outcomes, TRUE, TRUE, MaxHistory)
    \/ GoHistory
    \/ BackToBuilder
    \/ RefreshHistory(TRUE)
    \/ \E i \in 1..Len(history) : EditQuotation(i)
    \/ \E i \in 1..Len(history) :
          \E outcomes \in OutcomeChoices(history[i].items, {"ok"}) :
             RegeneratePDF(i, outcomes)

SpecQuote == InitQuote /\ [][NextQuote]_vars

-----------------------------------------------------------------------------
(* Specification of the renderer's image cells: every product of the       *)
(* sheet, every outcome of a download                                      *)

InitImages == InitWith({CatalogA}, {TRUE})

NextImages ==
    \/ Login(Buyer, "pw-a")
    \/ SubmitDetails(CreateNew, "Acme", "Sara", << >>, << >>)
    \/ Drafting /\ \E idx \in RowIds : \E name \in name_options \cup {SelectOpt} :
          SelectProduct(idx, name)
    \/ Drafting /\ AddProduct
    \/ Drafting /\ OpenTerms
    \/ Drafting /\ CloseTerms(TRUE)
    \/ \E outcomes \in OutcomeChoices(output_data, Outcomes) :
          GeneratePDF(outcomes, TRUE, TRUE, MaxHistory)

SpecImages == InitImages /\ [][NextImages]_vars

-----------------------------------------------------------------------------
(* Specification of the quotation hash: an admin session that generates    *)
(* two documents and changes rows, totals, details and terms in between    *)

Compared == {"first", "second"}

InitHash == InitWith({CatalogA}, {TRUE})

NextHash ==
    \/ Login(Admin, "pw-o")
    \/ SubmitDetails(CreateNew, "Acme", "Sara", << >>, << >>)
    \/ \E name \in name_options : SelectProduct(0, name)
    \/ SetQuantity(0, MaxQty)
    \/ SetDiscount(0, 5)
    \/ SetColor(0, "Oak")
    \/ SetOverallDiscount(5)
    \/ SetValidationDays(10)
    \/ OpenTerms
    \/ CloseTerms(TRUE)
    \/ SaveTerms("Payment in advance.", TRUE)
    \/ \E outcomes \in OutcomeChoices(output_data, {"ok"}) :
          GeneratePDF(outcomes, TRUE, TRUE, Cardinality(Compared))

SpecHash == InitHash /\ [][NextHash]_vars

-----------------------------------------------------------------------------
(* Specification of the company details form: what a buyer can type into   *)
(* its boxes, submitted again after Edit Company Info and Create New       *)
(* Quotation                                                               *)

MaxCompanies == 2

PhoneInputs == { << >>, << "+", "0", "5" >>, << "0", "5", "x" >> }
EmailInputs == { << >>, << "a", "@", "b", ".", "c", "o" >>, << "a", "b" >> }

InitForm == InitWith({CatalogA}, {TRUE})

NextForm ==
    \/ Login(Buyer, "pw-a")
    \/ /\ Len(company_sheet) < MaxCompanies
       /\ \E selected_company \in {CreateNew} \cup company_names :
          \E company_name \in {"", "Acme", "Bolt"} :
          \E contact_person \in {"", "Sara"} :
          \E contact_email \in EmailInputs :
          \E contact_phone \in PhoneInputs :
             SubmitDetails(selected_company, company_name, contact_person,
                           contact_email, contact_phone)
    \/ EditCompanyInfo
    \/ NewQuotation

SpecForm == InitForm /\ [][NextForm]_vars

-----------------------------------------------------------------------------
(* Properties of the quote builder (SpecBuilder) *)

\* C1: a discount above 20 entered on a product row or as the overall
\* discount is applied as 0, so the row's total is price times quantity and
\* the final total is the sum of the rows; a discount of at most 20 is
\* applied as entered
C1_DiscountAboveLimitIsZero ==
    /\ \A idx \in Range(row_indices) :
          prod(idx) # SelectOpt =>
             LET it == RowItem(idx)
             IN /\ discount(idx) > MaxDiscount =>
                      /\ it.Discount_pct = 0
                      /\ it.Total_price = it.Price_per_item * it.Quantity
                /\ discount(idx) <= MaxDiscount =>
                      it.Discount_pct = discount(idx)
    /\ overall_w > MaxDiscount => final_total = total_sum
    /\ overall_w <= MaxDiscount =>
          final_total = (total_sum \div 100) * (100 - overall_w)

\* a row with 21 entered, a row with 20 entered, and 21 as overall discount
C1_Witness ==
    /\ InBuilder
    /\ overall_w > MaxDiscount
    /\ \E i, j \in Range(row_indices) :
          /\ prod(i) # SelectOpt /\ discount(i) > MaxDiscount
          /\ prod(j) # SelectOpt /\ discount(j) = MaxDiscount

\* C3: each line's total is its unit price times its quantity times
\* (1 - applied discount / 100)
C3_LineTotal ==
    \A k \in 1..Len(output_data) :
       LET it == output_data[k]
       IN it.Total_price =
             ((it.Price_per_item * it.Quantity) \div 100)
                * (100 - it.Discount_pct)

\* a priced line of several pieces with a discount applied
C3_Witness ==
    /\ InBuilder
    /\ \E k \in 1..Len(output_data) :
          /\ output_data[k].Quantity > 1
          /\ output_data[k].Discount_pct > 0
          /\ output_data[k].Price_per_item > 0

-----------------------------------------------------------------------------
(* Properties of a quote's life (SpecQuote) *)

DiscountInRange(items) ==
    \A k \in 1..Len(items) :
       items[k].Discount_pct >= 0 /\ items[k].Discount_pct <= MaxDiscount

RecordsOf(e) ==
    {i \in 1..Len(history) :
        history[i].quotation_hash = e.hash \/ history[i].hash = e.hash}

\* C4 as stated: the final total is the sum of the line totals times
\* (1 - applied overall discount / 100), and this same value is passed to
\* the document and stored in the history record
C4_SameTotalEverywhere ==
    /\ final_total = (total_sum \div 100) * (100 - overall_discount)
    /\ pdf_out.status = "ok" => pdf_out.summary.total = final_total
    /\ \A g \in 1..Len(gen_log) : \A i \in RecordsOf(gen_log[g]) :
          history[i].total = gen_log[g].total

\* C4 as the code has it: the final total is the sum of the line totals
\* times (1 - applied overall discount / 100); the document gets this value,
\* and the history record stores it rounded to two decimals, at most half a
\* hundredth away
C4_TotalRoundedInHistory ==
    /\ final_total = (total_sum \div 100) * (100 - overall_discount)
    /\ pdf_out.status = "ok" => pdf_out.summary.total = final_total
    /\ \A g \in 1..Len(gen_log) : \A i \in RecordsOf(gen_log[g]) :
          /\ history[i].total % Cent = 0
          /\ 2 * Abs(history[i].total - gen_log[g].total) <= Cent

\* a document was just generated with an overall discount, and the record
\* of it holds a total other than the one the document got
C4_Witness ==
    /\ pdf_out.status = "ok"
    /\ overall_discount > 0
    /\ \E g \in 1..Len(gen_log) : \E i \in RecordsOf(gen_log[g]) :
          /\ gen_log[g].total = final_total
          /\ history[i].total # final_total

\* C5: VAT is the total after discount times one fixed rate, the same in
\* the builder's renderer and in the history page's renderer
C5_SameVatInBothRenderers ==
    \A i \in 1..Len(history) :
       LET quote == history[i]
       IN /\ build_pdf_summary(quote.items, quote.total).vat =
                Percent(quote.total, VatPercent)
          /\ history_pdf_summary(quote.items, quote.total).vat =
                build_pdf_summary(quote.items, quote.total).vat

-----------------------------------------------------------------------------
(* Properties of the quotation hash (SpecHash) *)

SameInputs(a, b) ==
    a.items = b.items /\ a.total = b.total /\ a.details = b.details

\* C6: two Generate PDF actions with the same items, the same final total
\* and the same company details get the same hash, whoever is logged in,
\* whatever the terms text is and whatever was done before
C6_HashDeterministic ==
    \A a, b \in 1..Len(gen_log) :
       SameInputs(gen_log[a], gen_log[b]) => gen_log[a].hash = gen_log[b].hash

\* the same quote generated twice, the terms text changed in between
C6_Witness ==
    /\ Len(gen_log) = Cardinality(Compared)
    /\ SameInputs(gen_log[1], gen_log[2])
    /\ gen_log[1].terms # gen_log[2].terms

\* C7: two Generate PDF actions get the same hash only if the items, the
\* final total and the company details are all the same
C7_HashTellsInputsApart ==
    \A a, b \in 1..Len(gen_log) :
       gen_log[a].hash = gen_log[b].hash => SameInputs(gen_log[a], gen_log[b])

\* two generations that differ in the final total alone
C7_Witness ==
    /\ Len(gen_log) = Cardinality(Compared)
    /\ gen_log[1].items = gen_log[2].items
    /\ gen_log[1].details = gen_log[2].details
    /\ gen_log[1].total # gen_log[2].total
    /\ gen_log[1].hash # gen_log[2].hash

-----------------------------------------------------------------------------
(* Properties of the totals over the product sheets (SpecCatalog) *)

\* C8: no unit price, line total, final total or VAT amount is negative,
\* for every product sheet the loader accepts
C8_NoNegativeMoney ==
    /\ \A k \in 1..Len(output_data) :
          /\ output_data[k].Price_per_item >= 0
          /\ output_data[k].Total_price >= 0
    /\ total_sum >= 0
    /\ final_total >= 0
    /\ build_pdf_summary(output_data, final_total).vat >= 0

\* C17: the option the product list holds for a row of the cleaned sheet
\* resolves to that row's unit price, image and SKU, also when two rows have
\* one title: a quote line made from the option carries the row's values
C17_ProductKeepsIdentity ==
    LET df == get_sheet_data(catalog)
    IN \A i \in 1..Len(df) : \A k \in 1..Len(output_data) :
          output_data[k].Item = lookups.products[i]
          => /\ output_data[k].Price_per_item = df[i].Price
             /\ output_data[k].Image = df[i].Image
             /\ lookups.code_map[output_data[k].Item] = df[i].SKU

-----------------------------------------------------------------------------
(* Properties of the renderer's image cells (SpecImages) *)

\* the document of the current quote is in the cache of build_pdf_cached
Cached ==
    << data_hash(output_data, final_total, company_details), final_total,
       company_details >> \in DOMAIN pdf_cache

\* C9: a Generate PDF that renders a document gets one whatever the image
\* downloads do, and the image cell of a row shows "No Image" exactly when
\* the row has no image or its download failed
C9_ImageFailureKeepsDocument ==
    [][(/\ output_data # << >> /\ terms_reviewed /\ ~Cached
        /\ UNCHANGED << rows, terms >>)
          => \A outcomes \in OutcomeChoices(output_data, Outcomes) :
                GeneratePDF(outcomes, TRUE, TRUE, MaxHistory)
                => /\ pdf_out'.status = "ok"
                   /\ Len(pdf_out'.table) = Len(output_data)
                   /\ \A i \in 1..Len(output_data) :
                         pdf_out'.table[i].image = "No Image"
                            <=> i \in FailedRows(output_data, outcomes)]_vars

\* a document with a row whose download failed next to a row whose image
\* is shown
C9_Witness ==
    /\ pdf_out.status = "ok"
    /\ \E i, j \in 1..Len(pdf_data) :
          /\ pdf_data[i].Image # "" /\ pdf_out.table[i].image = "No Image"
          /\ pdf_data[j].Image # "" /\ pdf_out.table[j].image = "Image"

-----------------------------------------------------------------------------
(* Properties of the company details form (SpecForm) *)

\* C10: a submit whose phone is not empty and not of the phone format is
\* rejected: form_submitted stays false, company_details is unchanged and
\* nothing is saved to the company sheet
C10_BadPhoneRejected ==
    [][("Invalid phone number format." \in messages')
          => /\ form_submitted' = FALSE
             /\ company_details' = company_details
             /\ company_sheet' = company_sheet]_vars

\* the texts of the email box that are empty or of the email format
WellFormedEmails == {"", "a@b.co"}

\* C11: a submit whose email is not empty and not of the email format is
\* rejected with a message: form_submitted stays false, company_details is
\* unchanged and nothing is saved to the company sheet; so a submit that is
\* accepted stores an email that is empty or well formed
C11_BadEmailRejected ==
    [][/\ ("Invalid email format." \in messages')
             => /\ form_submitted' = FALSE
                /\ company_details' = company_details
                /\ company_sheet' = company_sheet
       /\ (form_submitted' /\ ~form_submitted)
             => /\ company_details'.contact_email \in WellFormedEmails
                /\ \A i \in 1..Len(company_sheet') :
                      company_sheet'[i].contact_email \in WellFormedEmails]_vars

\* the form is still shown with the message after a submit with a bad
\* email, next to a company an earlier submit saved
C11_Witness ==
    /\ "Invalid email format." \in messages
    /\ ~form_submitted
    /\ company_sheet # << >>
    /\ company_details # Empty

-----------------------------------------------------------------------------
(* Properties of the row loop (SpecBuilder) *)

ItemFields ==
    {"Item", "Quantity", "Price_per_item", "Discount_pct", "Total_price"}

\* C12: a row whose product is "-- Select --" gives no entry of output_data
\* and nothing of the subtotal; every entry of output_data has a product, a
\* quantity, a unit price, an applied discount and a line total, and the
\* line total is the one the other fields give
C12_NoPartialRow ==
    /\ Len(output_data) =
          Cardinality({i \in Range(row_indices) : prod(i) # SelectOpt})
    /\ (\A i \in Range(row_indices) : prod(i) = SelectOpt)
          => output_data = << >> /\ total_sum = 0
    /\ \A k \in 1..Len(output_data) :
          LET it == output_data[k]
          IN /\ ItemFields \subseteq DOMAIN it
             /\ it.Item # SelectOpt
             /\ it.Quantity >= 1
             /\ it.Price_per_item = Get(lookups.price_map, it.Item, 0)
             /\ it.Total_price =
                   (it.Price_per_item \div 100) * (100 - it.Discount_pct)
                      * it.Quantity

\* an empty row above a row with a product
C12_Witness ==
    /\ InBuilder
    /\ Len(row_indices) > 1
    /\ prod(row_indices[1]) = SelectOpt
    /\ prod(row_indices[2]) # SelectOpt
    /\ Len(output_data) = 1

-----------------------------------------------------------------------------
(* Specification of the history store: one quote generated for a company   *)
(* of any name, with the history sheet up or down and the append and the   *)
(* reload working or failing                                               *)

InitStore == InitWith({CatalogA}, BOOLEAN)

NextStore ==
    \/ Login(Buyer, "pw-a")
    \/ \E company_name \in {"Acme", "NA"} :
          SubmitDetails(CreateNew, company_name, "Sara", << >>, << >>)
    \/ Drafting /\ \E name \in name_options \cup {SelectOpt} :
          SelectProduct(0, name)
    \/ Drafting /\ \E q \in Quantities : SetQuantity(0, q)
    \/ Drafting /\ SetOverallDiscount(5)
    \/ OpenTerms
    \/ CloseTerms(TRUE)
    \/ \E outcomes \in OutcomeChoices(output_data, {"ok", "timeout"}) :
       \E append_ok, reload_ok \in BOOLEAN :
          GeneratePDF(outcomes, append_ok, reload_ok, MaxHistory)

SpecStore == InitStore /\ [][NextStore]_vars

\* the record Generate PDF wrote for one generation
Written(e) == new_record(e.items, e.total, e.details, e.hash)

\* C13: a record appended to the history sheet by Generate PDF and loaded
\* by load_user_history_from_sheet has the user email, company name,
\* contact person, total, items and quotation hash of the record written
C13_HistoryRoundTrip ==
    \A g \in 1..Len(gen_log) : \A i \in 1..Len(history) :
       (history[i].has_details /\ history[i].hash = gen_log[g].hash)
          => /\ history[i].user_email = Written(gen_log[g]).user_email
             /\ history[i].company_name = Written(gen_log[g]).company_name
             /\ history[i].contact_person = Written(gen_log[g]).contact_person
             /\ history[i].total = Written(gen_log[g]).total
             /\ history[i].items = Written(gen_log[g]).items

-----------------------------------------------------------------------------
(* Properties of the history page (SpecQuote) *)

\* C14: pressing Regenerate PDF on a history record yields a document for
\* the record's items and total, offered for download, and no error
C14_RegenerateYieldsDocument ==
    [][(page = "history" /\ UNCHANGED << rows, terms, archive, page >>)
          => \A i \in 1..Len(history) :
             \A outcomes \in OutcomeChoices(history[i].items, {"ok"}) :
                RegeneratePDF(i, outcomes)
                => /\ pdf_out'.status = "ok"
                   /\ "Failed to generate PDF" \notin messages'
                   /\ Len(pdf_out'.table) = Len(history[i].items)
                   /\ pdf_out'.summary.total = history[i].total]_vars

-----------------------------------------------------------------------------
(* Properties of the history store (SpecStore) *)

\* the gates of Generate PDF: a quote with a line, the terms reviewed
PassesGates == InBuilder /\ output_data # << >> /\ terms_reviewed

\* C15: when the history sheet cannot be connected to, or the append or
\* the reload fails, Generate PDF reports the failure, no exception ends the
\* action and the document is still offered for download
C15_StoreFailureNotFatal ==
    [][(PassesGates /\ UNCHANGED << rows, terms >>)
          => \A outcomes \in OutcomeChoices(output_data, {"ok", "timeout"}) :
             \A append_ok, reload_ok \in BOOLEAN :
                GeneratePDF(outcomes, append_ok, reload_ok, MaxHistory)
                => /\ pdf_out'.status = "ok"
                   /\ "exception" \notin messages'
                   /\ (~sheet_up \/ ~append_ok \/ ~reload_ok) => messages' # {}
                   /\ ~sheet_up =>
                         "Failed to connect to Google Sheets." \in messages'
                   /\ (sheet_up /\ ~append_ok) =>
                         "Saved locally, but failed to save to Google Sheet"
                            \in messages'
                   /\ (sheet_up /\ ~reload_ok) =>
                         "Failed to load history" \in messages']_vars

\* a document offered next to the report of a store that failed
C15_Witness ==
    /\ pdf_out.status = "ok"
    /\ "Saved locally, but failed to save to Google Sheet" \in messages
    /\ "Failed to load history" \in messages

\* what one Generate PDF step leaves behind, given the rows it is to append
OneQuote(outcomes, append_ok, reload_ok, appended) ==
    GeneratePDF(outcomes, append_ok, reload_ok, MaxHistory)
    => IF PassesGates
       THEN /\ pdf_out'.status = "ok"
            /\ Len(pdf_out'.table) = Len(output_data)
            /\ Len(gen_log') = Len(gen_log) + 1
            /\ Len(history_sheet') = Len(history_sheet) + appended
            /\ SubSeq(history_sheet', 1, Len(history_sheet)) = history_sheet
            /\ appended = 1 =>
                  /\ history_sheet'[Len(history_sheet')].items = output_data
                  /\ history_sheet'[Len(history_sheet')].hash =
                        data_hash(output_data, final_total, company_details)
       ELSE /\ pdf_out'.status = "none"
            /\ history_sheet' = history_sheet
            /\ history' = history
            /\ gen_log' = gen_log

\* C16: a Generate PDF that passes its gates (non-empty quote, terms
\* reviewed) yields exactly one document and, when the history sheet is
\* reachable (it opens and append_row goes through), appends exactly one row,
\* the row of this quote, and no row when it is not; a Generate PDF that does
\* not pass the gates yields no document and appends no row
C16_OneRowWhenAppended ==
    [][(InBuilder /\ UNCHANGED rows)
          => \A outcomes \in OutcomeChoices(output_data, {"ok", "timeout"}) :
             \A append_ok, reload_ok \in BOOLEAN :
                OneQuote(outcomes, append_ok, reload_ok,
                         IF sheet_up /\ append_ok THEN 1 ELSE 0)]_vars

\* a document next to the one row its Generate PDF appended
C16_Witness ==
    /\ pdf_out.status = "ok"
    /\ sheet_up
    /\ Len(history_sheet) = 1
    /\ Len(gen_log) = 1
    /\ history_sheet[1].hash = gen_log[1].hash

-----------------------------------------------------------------------------
(* Specification of the history page's list: a buyer whose earlier sessions *)
(* left three quotes on the history sheet searches the list and deletes     *)
(* records, while the sheet may become unreachable                          *)

\* the row Generate PDF appended for the buyer's quote of one desk to the
\* company
StoredRow(company) ==
    LET item == [Item |-> "Desk", Color |-> DefaultColor, Image |-> "",
                 Quantity |-> 1, Price_per_item |-> 3 * SAR,
                 Discount_pct |-> 0, Total_price |-> 3 * SAR]
        details == [company_name |-> company,
                    contact_person |-> "Sara",
                    contact_email |-> "",
                    contact_phone |-> "",
                    prepared_by |-> USERS[Buyer].full_name,
                    prepared_by_email |-> Buyer,
                    validation_days |-> DefaultValidationDays]
    IN [user_email |-> Buyer,
        company_name |-> company,
        contact_person |-> "Sara",
        total |-> Round2(3 * SAR),
        items |-> << item >>,
        hash |-> data_hash(<< item >>, 3 * SAR, details)]

\* two rows the app wrote, and one from before the sheet had its "Quotation
\* Hash" column filled
StoredSheet ==
    << StoredRow("Acme"), StoredRow("Bolt"),
       [StoredRow("Core") EXCEPT !.hash = ""] >>

SearchTerms == {<< >>, << "a", "c" >>, << "o" >>}

InitDelete == InitFrom({CatalogA}, {TRUE}, StoredSheet)

NextDelete ==
    \/ Login(Buyer, "pw-a")
    \/ GoHistory
    \/ BackToBuilder
    \/ RefreshHistory(TRUE)
    \/ \E term \in SearchTerms : SetSearch(term)
    \/ \E idx \in 0..(Len(StoredSheet) - 1) : \E delete_ok \in BOOLEAN :
          Delete(idx, delete_ok)
    \/ \E up \in BOOLEAN : SheetConnection(up)

SpecDelete == InitDelete /\ [][NextDelete]_vars

\* a press of Delete that finds the flag of its index set
Confirmed(idx) == idx \in DOMAIN confirm_delete

\* C18: a press of Delete removes a record from the session or a row from
\* the sheet only if an earlier press of Delete on that same record set the
\* confirmation flag; a single press on a record removes nothing
C18_DeleteOnlyAfterConfirmation ==
    [][(page = "history" /\ UNCHANGED search_input)
          => \A idx \in 0..(Len(StoredSheet) - 1) : \A delete_ok \in BOOLEAN :
                (/\ Delete(idx, delete_ok)
                 /\ (history' # history \/ history_sheet' # history_sheet))
                => /\ Confirmed(idx)
                   /\ confirm_delete[idx] = Shown(idx).company_name]_vars

\* C19: a confirmed Delete that goes through takes out of the session
\* history the record on whose expander it was pressed and no other, with and
\* without a search filter
C19_DeleteRemovesPressedRecord ==
    [][(page = "history" /\ UNCHANGED search_input)
          => \A idx \in 0..(Len(StoredSheet) - 1) :
                (Delete(idx, TRUE) /\ Confirmed(idx))
                => history' = RemoveAt(history, ShownPos(idx))]_vars

\* C20: after a confirmed Delete the record is gone from the session exactly
\* when a row is gone from the sheet, that row is the pressed record's row,
\* and an unreachable sheet or a hash no row matches leaves the session
\* history as it was
C20_DeleteKeepsSessionAndSheetInStep ==
    [][(page = "history" /\ UNCHANGED search_input)
          => \A idx \in 0..(Len(StoredSheet) - 1) : \A delete_ok \in BOOLEAN :
                (Delete(idx, delete_ok) /\ Confirmed(idx))
                => /\ (history' # history) <=> (history_sheet' # history_sheet)
                   /\ history_sheet' # history_sheet
                      => \E i \in matching_rows(Shown(idx)) :
                            history_sheet' = RemoveAt(history_sheet, i)
                   /\ (~sheet_up \/ matching_rows(Shown(idx)) = {})
                      => history' = history]_vars

-----------------------------------------------------------------------------
(* Properties of the session history after Generate PDF (SpecStore) *)

\* C21: when append_row fails during Generate PDF (the warning says the
\* quotation was saved locally), the session history holds the new quotation
\* when the action ends
C21_FailedAppendKeepsSessionRecord ==
    ("Saved locally, but failed to save to Google Sheet" \in messages
     /\ pdf_out.status = "ok")
    => \E i \in 1..Len(history) :
          /\ history[i].items = gen_log[Len(gen_log)].items
          /\ history[i].total = Round2(gen_log[Len(gen_log)].total)

\* C22: every record of the session history, appended by Generate PDF or
\* loaded from the sheet, has the key "hash" the history page reads for its
\* Delete button
C22_EveryRecordHasHash == \A i \in 1..Len(history) : history[i].hash # None

\* C23: while the terms are not reviewed or the quote has no selected line no
\* step builds a document, appends a history record or writes a sheet row;
\* Generate PDF pressed on a quote with lines and unreviewed terms gives the
\* warning and opens the terms view, and changes nothing else
C23_BlockedUntilTermsReviewed ==
    [][/\ ~(terms_reviewed /\ output_data # << >> /\ InBuilder)
          => /\ pdf_out'.status # "ok"
             /\ UNCHANGED << history, history_sheet, gen_log, pdf_cache,
                             pdf_data >>
       /\ (InBuilder /\ output_data # << >> /\ ~terms_reviewed
           /\ UNCHANGED << rows, overall_w, terms_reviewed, terms_text >>)
          => \A outcomes \in OutcomeChoices(output_data, {"ok", "timeout"}) :
             \A append_ok, reload_ok \in BOOLEAN :
                GeneratePDF(outcomes, append_ok, reload_ok, MaxHistory)
                => /\ show_edit_terms'
                   /\ messages' =
                         {"Please review the Terms & Conditions first."}]_vars

\* Generate PDF was pressed on a quote with a line before the review: the
\* terms view is open and there is no document and no record
C23_Witness ==
    /\ messages = {"Please review the Terms & Conditions first."}
    /\ show_edit_terms
    /\ ~terms_reviewed
    /\ output_data # << >>
    /\ pdf_out.status = "none"
    /\ history = << >> /\ history_sheet = << >> /\ gen_log = << >>

-----------------------------------------------------------------------------
(* Specification of access: logins with right and wrong credentials, the    *)
(* pages opened with and without a login, and one action of each kind that  *)
(* needs a login                                                            *)

LoginEmails == {Buyer, Admin, "eve@amjad.sa"}
LoginPasswords == {"pw-a", "pw-o", ""}

InitAccess == InitFrom({CatalogA}, {TRUE}, << StoredRow("Acme") >>)

NextAccess ==
    \/ \E email \in LoginEmails : \E password \in LoginPasswords :
          Login(email, password)
    \/ Logout
    \/ \E target \in {"builder", "history"} : OpenPage(target)
    \/ company_sheet = << >>
          /\ SubmitDetails(CreateNew, "Bolt", "Sara", << >>, << >>)
    \/ SubmitDetails("Bolt", "Bolt", "Sara", << >>, << >>)
    \/ Drafting /\ SelectProduct(0, "Desk")
    \/ OpenTerms
    \/ CloseTerms(TRUE)
    \/ SaveTerms("Prices are in SAR.", TRUE)
    \/ GeneratePDF(<< "ok" >>, TRUE, TRUE, MaxHistory)
    \/ GoHistory
    \/ BackToBuilder
    \/ RefreshHistory(TRUE)
    \/ \E idx \in 0..1 : Delete(idx, TRUE)

SpecAccess == InitAccess /\ [][NextAccess]_vars

\* C24: logged_in becomes true only by a login whose email is a key of the
\* users table and whose password is that user's; without a login no step on
\* either page changes the quote, the terms, the sheets or the history, and
\* none builds a document
C24_AccessGatedByLogin ==
    [][/\ \A email \in LoginEmails : \A password \in LoginPasswords :
             (Login(email, password) /\ logged_in')
             => /\ email \in DOMAIN USERS
                /\ USERS[email].password = password
                /\ user_email' = email /\ role' = USERS[email].role
       /\ (~logged_in /\ logged_in')
          => \E email \in LoginEmails : \E password \in LoginPasswords :
                Login(email, password)
       /\ (~logged_in /\ ~logged_in')
          => /\ pdf_out' = NoDoc
             /\ UNCHANGED << sheets, identity, form_submitted, company_details,
                             rows, overall_w, terms, archive, listing >>]_vars

\* a login was refused, and the history page was opened without a login
C24_Witness ==
    /\ ~logged_in
    /\ page = "history"
    /\ messages = {"Please log in first."}
    /\ history = << >>
    /\ Len(history_sheet) = 2

-----------------------------------------------------------------------------
(* Specification of the history loads: a sheet with rows of two users, a    *)
(* row whose email is written in capitals and a row that cannot be          *)
(* converted; the users log in and out, refresh, search and delete          *)

MixedSheet ==
    << StoredRow("Acme"),
       [StoredRow("Bolt") EXCEPT !.user_email = Admin],
       [StoredRow("Bolt") EXCEPT !.items = NotJson, !.hash = "0badc0de"],
       [StoredRow("Core") EXCEPT !.user_email = "Amal@Amjad.SA"] >>

InitLoad == InitFrom({CatalogA}, {TRUE}, MixedSheet)

NextLoad ==
    \/ \E email \in {Buyer, Admin} : Login(email, USERS[email].password)
    \/ Logout
    \/ GoHistory
    \/ BackToBuilder
    \/ \E reload_ok \in BOOLEAN : RefreshHistory(reload_ok)
    \/ \E term \in SearchTerms : SetSearch(term)
    \/ \E idx \in 0..1 : Delete(idx, TRUE)

SpecLoad == InitLoad /\ [][NextLoad]_vars

\* the rows of the sheet that are the user's, and those of them that convert
OwnRows(email) ==
    SelectSeq(history_sheet, LAMBDA r : lower(r.user_email) = lower(email))

OwnGoodRows(email) == SelectSeq(OwnRows(email), LAMBDA r : r.items # NotJson)

\* the history is the user's convertible rows, in the sheet's order
LoadedFor(email, hist, msgs) ==
    /\ Len(hist) = Len(OwnGoodRows(email))
    /\ \A k \in 1..Len(hist) :
          /\ hist[k].user_email = OwnGoodRows(email)[k].user_email
          /\ hist[k].company_name = OwnGoodRows(email)[k].company_name
          /\ hist[k].items = OwnGoodRows(email)[k].items
    /\ Len(OwnGoodRows(email)) < Len(OwnRows(email))
       => "Skipping malformed row" \in msgs

\* C25: every record of the session history has the logged-in user's email
\* (letter case aside); a load at login or by Refresh gives exactly the
\* user's rows that convert, no row of another user, and a row that does not
\* convert is skipped with a warning while the user's other rows are loaded
C25_OnlyOwnHistory ==
    [][/\ logged_in'
          => \A i \in 1..Len(history') :
                lower(history'[i].user_email) = lower(user_email')
       /\ \A email \in {Buyer, Admin} :
             (Login(email, USERS[email].password) /\ sheet_up)
             => LoadedFor(email, history', messages')
       /\ (RefreshHistory(TRUE) /\ sheet_up)
          => LoadedFor(user_email, history', messages')]_vars

\* the buyer's history after a load that skipped a row: the quote stored
\* under the email in capitals is there, the other user's is not
C25_Witness ==
    /\ logged_in /\ user_email = Buyer
    /\ Len(history_sheet) = 4
    /\ Len(history) = 2
    /\ history[2].user_email = "Amal@Amjad.SA"
    /\ "Skipping malformed row" \in messages

-----------------------------------------------------------------------------
(* Properties of Edit Quotation (SpecQuote) *)

\* C26: after Edit Quotation the builder has one row per item of the record,
\* in the record's order, and row k has item k's product, quantity and
\* discount, so that the row's line total is the item's stored total
C26_EditRestoresQuote ==
    [][(page = "history" /\ page' = "builder")
          => \A i \in 1..Len(history) :
                EditQuotation(i)
                => \A restored \in {output_data'} :
                      LET items == history[i].items
                      IN /\ row_indices' = [k \in 1..Len(items) |-> k - 1]
                         /\ Len(restored) = Len(items)
                         /\ \A k \in 1..Len(items) :
                               /\ restored[k].Item = items[k].Item
                               /\ restored[k].Quantity = items[k].Quantity
                               /\ restored[k].Discount_pct =
                                     items[k].Discount_pct
                               /\ restored[k].Price_per_item =
                                     items[k].Price_per_item
                               /\ restored[k].Total_price =
                                     items[k].Total_price]_vars

\* a stored quote of two lines that differ in quantity and discount is back
\* in the builder, line by line
C26_Witness ==
    /\ InBuilder
    /\ Len(history) = 1 /\ Len(gen_log) = 1
    /\ Len(history[1].items) = 2
    /\ history[1].items[1].Quantity # history[1].items[2].Quantity
    /\ history[1].items[1].Discount_pct # history[1].items[2].Discount_pct
    /\ output_data = history[1].items
    /\ company_details # gen_log[1].details

====
